---- MODULE Spec2Model ----
(***************************************************************************)
(* A model of the GDAX adapter (python/ccxt/async/gdax.py): the request    *)
(* builder `sign`, the error classifier `handle_errors`, `request`, the    *)
(* response parsers and the operation methods, as one call pipeline:       *)
(*   an operation method runs up to its awaited API call (at most one      *)
(*   signed HTTP request), the transport answers, `request` classifies the *)
(*   answer, and the operation method finishes on the returned response.   *)
(***************************************************************************)
EXTENDS Integers, Sequences, FiniteSets, TLC

VARIABLES
    credentials,  \* TRUE when apiKey, secret and password are all set
    clock,        \* the millisecond clock that nonce() reads
    pc,           \* "idle", "awaiting", "received", "resumed", "done"
    call,         \* the operation method being run and its arguments
    invoked,      \* the generated API method it awaits, with its parameters
    sent,         \* the signed HTTP requests issued by the current call
    http,         \* the transport's answer: [code, body]
    classified,   \* what handle_errors did with the answer
    returned,     \* what request() handed back to the operation method
    result        \* how the operation method ended: a return or a raise

vars ==
    <<credentials, clock, pc, call, invoked, sent, http, classified, returned,
      result>>

----------------------------------------------------------------------------
(* Bounds of the model.                                                    *)

MaxClock == 2      \* calls made one after another (values of the nonce)
MaxMsgLen == 2     \* fragments in a server error message
MaxQty == 2        \* largest size / funds / filled quantity in a raw order

----------------------------------------------------------------------------
(* Python values.  None is the empty tuple and any other nullable value v  *)
(* is the one-element tuple <<v>>; a dict is a function on its keys.       *)

None == <<>>
Some(v) == <<v>>
EmptyDict == [k \in {} |-> None]

\* JSON numbers arrive as decimal strings: NumStr(n) is the string, float()
\* reads it back.
NumStr(n) == [str |-> n]
float(s) == s.str

\* ISO-8601 strings carry a second count; parse8601 yields milliseconds.
IsoStr(sec) == [iso |-> sec]
parse8601(s) == s.iso * 1000
iso8601(ts) == IF ts = None THEN None ELSE Some(IsoStr(ts[1] \div 1000))

extend(a, b) ==
    [k \in (DOMAIN a) \cup (DOMAIN b) |-> IF k \in DOMAIN b THEN b[k] ELSE a[k]]

omit(d, keys) == [k \in (DOMAIN d) \ keys |-> d[k]]

safe_float(d, key) == IF key \in DOMAIN d THEN Some(float(d[key])) ELSE None

safe_string(d, key) == IF key \in DOMAIN d THEN Some(d[key]) ELSE None

urlencode(query) == [encoding |-> "urlencode", of |-> query]

json(value) == [encoding |-> "json", of |-> value]

hmac(what, secret) == [hmac |-> "sha256/base64", over |-> what, key |-> secret]

\* A path template is a sequence of segments, literal or {placeholder}.
Lit(s) == [ph |-> FALSE, s |-> s]
Ph(s) == [ph |-> TRUE, s |-> s]

implode_params(path, params) ==
    [i \in DOMAIN path |->
        IF path[i].ph /\ path[i].s \in DOMAIN params
        THEN Lit(params[path[i].s])
        ELSE path[i]]

extract_params(path) == {path[i].s : i \in {j \in DOMAIN path : path[j].ph}}

\* Outcomes of a function call.
Return(v) == [kind |-> "return", value |-> v]
Raise(type, text) == [kind |-> "raise", type |-> type, text |-> text]
Pending == [kind |-> "none"]

id == "gdax"
ApiUrl == "https://api.gdax.com"

----------------------------------------------------------------------------
(* The API table of describe(): the generated methods and their endpoints. *)

Endpoint(api, method, path) == [api |-> api, method |-> method, path |-> path]

publicGetProducts == Endpoint("public", "GET", <<Lit("products")>>)
publicGetProductsIdBook ==
    Endpoint("public", "GET", <<Lit("products"), Ph("id"), Lit("book")>>)
publicGetProductsIdCandles ==
    Endpoint("public", "GET", <<Lit("products"), Ph("id"), Lit("candles")>>)
publicGetProductsIdTicker ==
    Endpoint("public", "GET", <<Lit("products"), Ph("id"), Lit("ticker")>>)
publicGetProductsIdTrades ==
    Endpoint("public", "GET", <<Lit("products"), Ph("id"), Lit("trades")>>)
publicGetTime == Endpoint("public", "GET", <<Lit("time")>>)
privateGetAccounts == Endpoint("private", "GET", <<Lit("accounts")>>)
privateGetFills == Endpoint("private", "GET", <<Lit("fills")>>)
privateGetOrders == Endpoint("private", "GET", <<Lit("orders")>>)
privateGetOrdersId == Endpoint("private", "GET", <<Lit("orders"), Ph("id")>>)
privateGetPaymentMethods ==
    Endpoint("private", "GET", <<Lit("payment-methods")>>)
privatePostDepositsCoinbaseAccount ==
    Endpoint("private", "POST", <<Lit("deposits"), Lit("coinbase-account")>>)
privatePostDepositsPaymentMethod ==
    Endpoint("private", "POST", <<Lit("deposits"), Lit("payment-method")>>)
privatePostOrders == Endpoint("private", "POST", <<Lit("orders")>>)
privatePostWithdrawalsCoinbase ==
    Endpoint("private", "POST", <<Lit("withdrawals"), Lit("coinbase")>>)
privatePostWithdrawalsCrypto ==
    Endpoint("private", "POST", <<Lit("withdrawals"), Lit("crypto")>>)
privatePostWithdrawalsPaymentMethod ==
    Endpoint("private", "POST", <<Lit("withdrawals"), Lit("payment-method")>>)
privateDeleteOrdersId ==
    Endpoint("private", "DELETE", <<Lit("orders"), Ph("id")>>)

\* The attributes getattr(self, name) finds for the names deposit() and
\* withdraw() build by concatenation; a name the table does not generate
\* is missing.
MethodTable ==
    [privatePostDepositsPaymentMethod |-> privatePostDepositsPaymentMethod,
     privatePostDepositsCoinbaseAccount |-> privatePostDepositsCoinbaseAccount,
     privatePostWithdrawalsPaymentMethod |-> privatePostWithdrawalsPaymentMethod,
     privatePostWithdrawalsCoinbase |-> privatePostWithdrawalsCoinbase,
     privatePostWithdrawalsCrypto |-> privatePostWithdrawalsCrypto]

----------------------------------------------------------------------------
(* sign: the request builder and signer.  The signed string `what` is the  *)
(* tuple of its four parts; an absent query string, body or payload (the   *)
(* empty string of the code) is None.                                      *)

check_required_credentials == credentials

\* sign without the removal of the path parameters from the rest.
sign_keeps_path_params(path, api, method, params, headers, body) ==
    LET imploded == implode_params(path, params)
        query == params
        request == [path |-> imploded,
                    query |-> IF method = "GET" /\ DOMAIN query # {}
                              THEN Some(urlencode(query)) ELSE None]
        url == [base |-> ApiUrl, request |-> request]
        nonce == [str |-> clock]
        signedBody == IF method # "GET" /\ DOMAIN query # {}
                      THEN Some(json(query)) ELSE body
        payload == IF method # "GET" /\ DOMAIN query # {}
                   THEN Some(json(query)) ELSE None
        what == <<nonce, method, request, payload>>
    IN  IF api = "private"
        THEN [url |-> url, method |-> method, body |-> signedBody,
              headers |-> Some([key |-> "apiKey",
                                sign |-> hmac(what, "secret"),
                                timestamp |-> nonce,
                                passphrase |-> "password",
                                contentType |-> "application/json"])]
        ELSE [url |-> url, method |-> method, body |-> body,
              headers |-> headers]

sign(path, api, method, params, headers, body) ==
    LET imploded == implode_params(path, params)
        query == omit(params, extract_params(path))
        request == [path |-> imploded,
                    query |-> IF method = "GET" /\ DOMAIN query # {}
                              THEN Some(urlencode(query)) ELSE None]
        url == [base |-> ApiUrl, request |-> request]
        nonce == [str |-> clock]
        signedBody == IF method # "GET" /\ DOMAIN query # {}
                      THEN Some(json(query)) ELSE body
        payload == IF method # "GET" /\ DOMAIN query # {}
                   THEN Some(json(query)) ELSE None
        what == <<nonce, method, request, payload>>
    IN  IF api = "private"
        THEN [url |-> url, method |-> method, body |-> signedBody,
              headers |-> Some([key |-> "apiKey",
                                sign |-> hmac(what, "secret"),
                                timestamp |-> nonce,
                                passphrase |-> "password",
                                contentType |-> "application/json"])]
        ELSE [url |-> url, method |-> method, body |-> body,
              headers |-> headers]

----------------------------------------------------------------------------
(* HTTP answers.  A body is raw text (a sequence of characters that is not *)
(* JSON) or the text of a JSON value; a parsed JSON value is a dict or a   *)
(* list.  A server message is a sequence of fragments, so that "contains"  *)
(* and "equals" differ.                                                    *)

Dict(d) == [type |-> "dict", items |-> d]
List(s) == [type |-> "list", items |-> s]

TextBody(chars) == [kind |-> "text", chars |-> chars]
JsonBody(value) == [kind |-> "json", value |-> value]

\* body[0]; the caller has checked that the body is not empty.
FirstChar(body) ==
    IF body.kind = "text" THEN body.chars[1]
    ELSE IF body.value.type = "dict" THEN "{" ELSE "["

IsEmptyBody(body) == body.kind = "text" /\ body.chars = <<>>

\* message.find(sub) >= 0
find(message, sub) == \E i \in DOMAIN message : message[i] = sub

\* `key in response` of Python: a key of a dict, an element of a list.
Contains(response, key) ==
    IF response.type = "dict"
    THEN key \in DOMAIN response.items
    ELSE FALSE  \* no element of a list the exchange sends is this string

----------------------------------------------------------------------------
(* handle_errors: the error classifier.                                    *)

\* classify_message with 'Insufficient funds' matched as a substring.
classify_message_substring(message) ==
    IF find(message, "price too small")
    THEN Raise("InvalidOrder", <<id, message>>)
    ELSE IF find(message, "price too precise")
    THEN Raise("InvalidOrder", <<id, message>>)
    ELSE IF find(message, "Insufficient funds")
    THEN Raise("InsufficientFunds", <<id, message>>)
    ELSE IF message = <<"Invalid API Key">>
    THEN Raise("AuthenticationError", <<id, message>>)
    ELSE Raise("ExchangeError", <<id, message>>)

classify_message(message) ==
    IF find(message, "price too small")
    THEN Raise("InvalidOrder", <<id, message>>)
    ELSE IF find(message, "price too precise")
    THEN Raise("InvalidOrder", <<id, message>>)
    ELSE IF message = <<"Insufficient funds">>
    THEN Raise("InsufficientFunds", <<id, message>>)
    ELSE IF message = <<"Invalid API Key">>
    THEN Raise("AuthenticationError", <<id, message>>)
    ELSE Raise("ExchangeError", <<id, message>>)

\* handle_errors with the catch-all raise outside the `if code == 400`.
handle_errors_any_status(code, body) ==
    IF code = 400
    THEN IF IsEmptyBody(body)
         THEN Raise("IndexError", "string index out of range")
         ELSE IF FirstChar(body) = "{"
         THEN IF body.kind = "text"
              THEN Raise("ValueError", "json.loads")
              ELSE IF "message" \notin DOMAIN body.value.items
              THEN Raise("KeyError", "message")
              ELSE classify_message(body.value.items["message"])
         ELSE Raise("ExchangeError", <<id, body>>)
    ELSE Raise("ExchangeError", <<id, body>>)

handle_errors(code, body) ==
    IF code = 400
    THEN IF IsEmptyBody(body)
         THEN Raise("IndexError", "string index out of range")
         ELSE IF FirstChar(body) = "{"
         THEN IF body.kind = "text"
              THEN Raise("ValueError", "json.loads")
              ELSE IF "message" \notin DOMAIN body.value.items
              THEN Raise("KeyError", "message")
              ELSE classify_message(body.value.items["message"])
         ELSE Raise("ExchangeError", <<id, body>>)
    ELSE Return(None)

\* The transport collaborator (fetch2/fetch of the base exchange): it calls
\* handle_errors on every answer, raises its own error for a status that is
\* not a success, and hands back the parsed JSON otherwise.
fetch2(code, body) ==
    LET raised == handle_errors(code, body)
    IN  IF raised.kind = "raise" THEN raised
        ELSE IF code \notin 200..299
        THEN Raise("TransportError", <<id, code, body>>)
        ELSE IF body.kind = "text"
        THEN Raise("ExchangeError", <<id, body>>)
        ELSE Return(body.value)

\* request without the test for `message`.
request_unchecked(fetched) == fetched

\* request: what it does with the outcome of the awaited fetch2.
request(fetched) ==
    IF fetched.kind = "raise" THEN fetched
    ELSE IF Contains(fetched.value, "message")
    THEN Raise("ExchangeError", <<id, json(fetched.value)>>)
    ELSE Return(fetched.value)

----------------------------------------------------------------------------
(* The market cache, loaded by the base exchange before any call.          *)

BtcUsd == [id |-> "BTC-USD", symbol |-> "BTC/USD", base |-> "BTC", quote |-> "USD"]

markets_by_id == ("BTC-USD" :> BtcUsd)

markets == ("BTC/USD" :> BtcUsd)

----------------------------------------------------------------------------
(* Response parsers.  Each yields Return(record), or Raise("KeyError", k)  *)
(* when the raw record lacks a key the code subscripts.                    *)

\* The first key of `keys` (in the order the code reads them) that `d` lacks.
MissingKey(d, keys) ==
    LET absent == {i \in DOMAIN keys : keys[i] \notin DOMAIN d}
    IN  IF absent = {} THEN None
        ELSE Some(keys[CHOOSE i \in absent : \A j \in absent : i <= j])

\* trade_fee building the fee object whether or not the trade has fill_fees.
trade_fee_always(trade, market) ==
    Some([cost |-> safe_float(trade, "fill_fees"),
          currency |-> IF market # None THEN Some(market[1].quote) ELSE None,
          rate |-> None])

trade_fee(trade, market) ==
    IF "fill_fees" \in DOMAIN trade
    THEN Some([cost |-> Some(float(trade["fill_fees"])),
               currency |-> IF market # None THEN Some(market[1].quote) ELSE None,
               rate |-> None])
    ELSE None

\* trade_side keeping the raw side as the exchange reports it.
trade_side_kept(trade) == trade["side"]

\* The side of a parsed trade: 'sell' for a raw 'buy', 'buy' for anything else.
trade_side(trade) == IF trade["side"] = "buy" THEN "sell" ELSE "buy"

parse_trade(trade, market) ==
    LET timestamp == IF "time" \in DOMAIN trade
                     THEN Some(parse8601(trade["time"]))
                     ELSE IF "created_at" \in DOMAIN trade
                     THEN Some(parse8601(trade["created_at"]))
                     ELSE None
        found == IF market = None /\ "product_id" \in DOMAIN trade
                    /\ trade["product_id"] \in DOMAIN markets_by_id
                 THEN Some(markets_by_id[trade["product_id"]])
                 ELSE market
        type == IF "liquidity" \in DOMAIN trade
                THEN Some(IF trade["liquidity"] = "T" THEN "Taker" ELSE "Maker")
                ELSE None
        missing == MissingKey(trade, <<"side", "price", "size">>)
    IN  IF missing # None THEN Raise("KeyError", missing[1])
        ELSE Return([id |-> safe_string(trade, "trade_id"),
                     order |-> safe_string(trade, "order_id"),
                     info |-> trade,
                     timestamp |-> timestamp,
                     datetime |-> iso8601(timestamp),
                     symbol |-> IF found # None
                                THEN Some(found[1].symbol) ELSE None,
                     type |-> type,
                     side |-> trade_side(trade),
                     price |-> float(trade["price"]),
                     amount |-> float(trade["size"]),
                     fee |-> trade_fee(trade, found)])

parse_order_status(status) ==
    CASE status = "pending" -> "open"
      [] status = "active" -> "open"
      [] status = "open" -> "open"
      [] status = "done" -> "closed"
      [] status = "canceled" -> "canceled"
      [] OTHER -> status

\* amount: size, else funds, else specified_funds.
order_amount(order) ==
    IF safe_float(order, "size") # None THEN safe_float(order, "size")
    ELSE IF safe_float(order, "funds") # None THEN safe_float(order, "funds")
    ELSE safe_float(order, "specified_funds")

\* order_remaining clamped at zero.
order_remaining_clamped(amount, filled) ==
    IF amount # None /\ filled # None
    THEN Some(IF amount[1] < filled[1] THEN 0 ELSE amount[1] - filled[1])
    ELSE None

order_remaining(amount, filled) ==
    IF amount # None /\ filled # None
    THEN Some(amount[1] - filled[1])
    ELSE None

order_fee(order) ==
    Some([cost |-> safe_float(order, "fill_fees"),
          currency |-> None,
          rate |-> None])

parse_order(order, market) ==
    LET missing == MissingKey(order,
                       <<"created_at">>
                       \o (IF market = None THEN <<"product_id">> ELSE <<>>)
                       \o <<"status", "id", "type", "side">>)
        timestamp == Some(parse8601(order["created_at"]))
        found == IF market = None /\ order["product_id"] \in DOMAIN markets_by_id
                 THEN Some(markets_by_id[order["product_id"]])
                 ELSE market
        amount == order_amount(order)
        filled == safe_float(order, "filled_size")
    IN  IF missing # None THEN Raise("KeyError", missing[1])
        ELSE Return([id |-> order["id"],
                     info |-> order,
                     timestamp |-> timestamp,
                     datetime |-> iso8601(timestamp),
                     status |-> parse_order_status(order["status"]),
                     symbol |-> IF found # None
                                THEN Some(found[1].symbol) ELSE None,
                     type |-> order["type"],
                     side |-> order["side"],
                     price |-> safe_float(order, "price"),
                     cost |-> safe_float(order, "executed_value"),
                     amount |-> amount,
                     filled |-> filled,
                     remaining |-> order_remaining(amount, filled),
                     fee |-> order_fee(order)])

\* The part of fetch_ticker that turns the raw ticker into the record.
parse_ticker(ticker, symbol) ==
    LET missing == MissingKey(ticker, <<"time", "volume">>)
        timestamp == Some(parse8601(ticker["time"]))
    IN  IF missing # None THEN Raise("KeyError", missing[1])
        ELSE Return([symbol |-> symbol,
                     timestamp |-> timestamp,
                     datetime |-> iso8601(timestamp),
                     bid |-> IF "bid" \in DOMAIN ticker
                             THEN Some(float(ticker["bid"])) ELSE None,
                     ask |-> IF "ask" \in DOMAIN ticker
                             THEN Some(float(ticker["ask"])) ELSE None,
                     last |-> safe_float(ticker, "price"),
                     baseVolume |-> float(ticker["volume"]),
                     info |-> ticker])

\* parse_ohlcv scaling the time and keeping the native column order.
parse_ohlcv_native_order(ohlcv) ==
    <<ohlcv[1] * 1000, ohlcv[2], ohlcv[3], ohlcv[4], ohlcv[5], ohlcv[6]>>

parse_ohlcv(ohlcv) ==
    <<ohlcv[1] * 1000, ohlcv[4], ohlcv[3], ohlcv[2], ohlcv[5], ohlcv[6]>>

\* parse_trades / parse_orders / parse_ohlcvs of the base exchange: the
\* parser applied to each element, the first error raised.
ParseEach(parsed) ==
    LET failed == {i \in DOMAIN parsed : parsed[i].kind = "raise"}
    IN  IF failed = {}
        THEN Return([i \in DOMAIN parsed |-> parsed[i].value])
        ELSE parsed[CHOOSE i \in failed : \A j \in failed : i <= j]

parse_trades(trades, market) ==
    ParseEach([i \in DOMAIN trades |-> parse_trade(trades[i], market)])

parse_orders(orders, market) ==
    ParseEach([i \in DOMAIN orders |-> parse_order(orders[i], market)])

parse_ohlcvs(ohlcvs) == Return([i \in DOMAIN ohlcvs |-> parse_ohlcv(ohlcvs[i])])

----------------------------------------------------------------------------
(* Operation methods, first half: the code up to the awaited API call.     *)
(* Each yields Api(endpoint, params), the one generated method it awaits,  *)
(* or the error it raises before any request.                              *)

Api(endpoint, params) == [kind |-> "api", endpoint |-> endpoint, params |-> params]

\* market() / market_id() of the base exchange: the cached market, or a
\* lookup failure for a symbol that is not in the cache.
market(symbol) ==
    IF symbol \in DOMAIN markets
    THEN Return(markets[symbol])
    ELSE Raise("ExchangeError", <<id, "No market symbol", symbol>>)

\* getattr(self, name)(params)
getattr(name, params) ==
    IF name \in DOMAIN MethodTable
    THEN Api(MethodTable[name], params)
    ELSE Raise("AttributeError", name)

YmdHMS(ms) == [ymdhms |-> ms]

timeframes == ("1m" :> 60) @@ ("1h" :> 3600)

DefaultOhlcvLimit == 350

fetch_markets == Api(publicGetProducts, EmptyDict)

fetch_balance == Api(privateGetAccounts, EmptyDict)

fetch_order_book(symbol, params) ==
    IF market(symbol).kind = "raise" THEN market(symbol)
    ELSE Api(publicGetProductsIdBook,
             extend([id |-> market(symbol).value.id, level |-> 2], params))

fetch_ticker(symbol, params) ==
    IF market(symbol).kind = "raise" THEN market(symbol)
    ELSE Api(publicGetProductsIdTicker,
             extend([id |-> market(symbol).value.id], params))

fetch_my_trades(symbol, limit, params) ==
    LET withSymbol == IF symbol # None
                      THEN [product_id |-> market(symbol[1]).value.id]
                      ELSE EmptyDict
        fields == IF limit # None
                   THEN extend(withSymbol, [limit |-> limit[1]])
                   ELSE withSymbol
    IN  IF symbol # None /\ market(symbol[1]).kind = "raise"
        THEN market(symbol[1])
        ELSE Api(privateGetFills, extend(fields, params))

fetch_trades(symbol, params) ==
    IF market(symbol).kind = "raise" THEN market(symbol)
    ELSE Api(publicGetProductsIdTrades,
             extend([id |-> market(symbol).value.id], params))

fetch_ohlcv(symbol, timeframe, since, limit, params) ==
    LET granularity == timeframes[timeframe]
        bars == IF limit = None THEN DefaultOhlcvLimit ELSE limit[1]
        base == [id |-> market(symbol).value.id, granularity |-> granularity]
        fields == IF since # None
                   THEN extend(base,
                            [start |-> YmdHMS(since[1]),
                             end |-> YmdHMS(bars * granularity * 1000 + since[1])])
                   ELSE base
    IN  IF market(symbol).kind = "raise" THEN market(symbol)
        ELSE Api(publicGetProductsIdCandles, extend(fields, params))

fetch_time == Api(publicGetTime, EmptyDict)

fetch_order(orderId, params) ==
    Api(privateGetOrdersId, extend([id |-> orderId], params))

\* fetch_orders, fetch_open_orders and fetch_closed_orders differ only in
\* the status filter they start the request with.
orders_request(filter, symbol, params) ==
    IF symbol # None /\ market(symbol[1]).kind = "raise"
    THEN market(symbol[1])
    ELSE Api(privateGetOrders,
             extend(IF symbol # None
                    THEN extend(filter, [product_id |-> market(symbol[1]).value.id])
                    ELSE filter,
                    params))

fetch_orders(symbol, params) == orders_request([status |-> "all"], symbol, params)

fetch_open_orders(symbol, params) == orders_request(EmptyDict, symbol, params)

fetch_closed_orders(symbol, params) ==
    orders_request([status |-> "done"], symbol, params)

create_order(symbol, type, side, amount, price, params) ==
    LET base == [product_id |-> market(symbol).value.id, side |-> side,
                 size |-> amount, type |-> type]
        order == IF type = "limit" THEN extend(base, [price |-> price]) ELSE base
    IN  IF market(symbol).kind = "raise" THEN market(symbol)
        ELSE Api(privatePostOrders, extend(order, params))

cancel_order(orderId) == Api(privateDeleteOrdersId, [id |-> orderId])

get_payment_methods == Api(privateGetPaymentMethods, EmptyDict)

deposit(currency, amount, address, params) ==
    LET fields == [currency |-> currency, amount |-> amount]
    IN  IF "payment_method_id" \in DOMAIN params
        THEN getattr("privatePostDepositsPaymentMethod", extend(fields, params))
        ELSE IF "coinbase_account_id" \in DOMAIN params
        THEN getattr("privatePostDepositsCoinbaseAccount", extend(fields, params))
        ELSE Raise("NotSupported", <<id, "deposit() requires one of coinbase_account_id or payment_method_id extra params">>)

withdraw(currency, amount, address, params) ==
    LET fields == [currency |-> currency, amount |-> amount]
    IN  IF "payment_method_id" \in DOMAIN params
        THEN getattr("privatePostWithdrawalsPaymentMethod", extend(fields, params))
        ELSE IF "coinbase_account_id" \in DOMAIN params
        THEN getattr("privatePostWithdrawalsCoinbaseAccount", extend(fields, params))
        ELSE getattr("privatePostWithdrawalsCrypto",
                     extend(extend(fields, [crypto_address |-> address]), params))

----------------------------------------------------------------------------
(* Operation methods, second half: the code after the awaited call, on     *)
(* the response that request() returned.                                   *)

fetch_markets_result(response) ==
    Return([p \in DOMAIN response.items |->
              LET m == response.items[p]
              IN  [id |-> m["id"],
                   symbol |-> <<m["base_currency"], "/", m["quote_currency"]>>,
                   base |-> m["base_currency"],
                   quote |-> m["quote_currency"],
                   precision |-> [amount |-> 8],
                   active |-> (m["status"] = "online"),
                   info |-> m]])

fetch_balance_result(response) ==
    LET balances == response.items
        currencies == {balances[b]["currency"] : b \in DOMAIN balances}
        last(c) == CHOOSE b \in DOMAIN balances :
                      /\ balances[b]["currency"] = c
                      /\ \A k \in DOMAIN balances :
                            balances[k]["currency"] = c => k <= b
    IN  Return([info |-> balances,
                accounts |-> [c \in currencies |->
                                [free |-> float(balances[last(c)]["available"]),
                                 used |-> float(balances[last(c)]["hold"]),
                                 total |-> float(balances[last(c)]["balance"])]]])

fetch_order_book_result(response) == Return([parse_order_book |-> response.items])

fetch_time_result(response) ==
    IF "iso" \in DOMAIN response.items
    THEN Return(parse8601(response.items["iso"]))
    ELSE Raise("KeyError", "iso")

\* create_order, deposit and withdraw end alike, except that create_order
\* does not test the response for emptiness.
id_result(response, method, checked) ==
    IF checked /\ DOMAIN response.items = {}
    THEN Raise("ExchangeError", <<id, method, json(response)>>)
    ELSE IF response.type = "list"
    THEN Raise("TypeError", "list indices must be integers")
    ELSE IF "id" \notin DOMAIN response.items
    THEN Raise("KeyError", "id")
    ELSE Return([info |-> response, id |-> response.items["id"]])

\* The market the trade and order list parsers are given.
MarketOf(symbol) == IF symbol = None THEN None ELSE Some(market(symbol[1]).value)

Continue(c, response) ==
    CASE c.op = "fetch_markets" -> fetch_markets_result(response)
      [] c.op = "fetch_balance" -> fetch_balance_result(response)
      [] c.op = "fetch_order_book" -> fetch_order_book_result(response)
      [] c.op = "fetch_ticker" -> parse_ticker(response.items, c.args.symbol)
      [] c.op = "fetch_my_trades" ->
            parse_trades(response.items, MarketOf(c.args.symbol))
      [] c.op = "fetch_trades" ->
            parse_trades(response.items, MarketOf(Some(c.args.symbol)))
      [] c.op = "fetch_ohlcv" -> parse_ohlcvs(response.items)
      [] c.op = "fetch_time" -> fetch_time_result(response)
      [] c.op = "fetch_order" -> parse_order(response.items, None)
      [] c.op \in {"fetch_orders", "fetch_open_orders", "fetch_closed_orders"} ->
            parse_orders(response.items, MarketOf(c.args.symbol))
      [] c.op = "create_order" -> id_result(response, "create_order()", FALSE)
      [] c.op = "cancel_order" -> Return(response)
      [] c.op = "get_payment_methods" -> Return(response)
      [] c.op = "deposit" -> id_result(response, "deposit() error", TRUE)
      [] c.op = "withdraw" -> id_result(response, "withdraw() error", TRUE)

----------------------------------------------------------------------------
(* The inputs of the model: arguments of the calls and answers of the      *)
(* exchange.                                                               *)

Opt(S) == {None} \cup {Some(x) : x \in S}

\* A dict that may or may not hold `key`.
OptField(key, values) == {EmptyDict} \cup {(key :> v) : v \in values}

Symbols == {"BTC/USD", "LTC/EUR"}   \* the second is not in the market cache

ExtraParams ==
    {a @@ b : a \in OptField("payment_method_id", {"pm-1"}),
              b \in OptField("coinbase_account_id", {"cb-1"})}

Qty == 0..MaxQty

Fragments == {"price too small", "price too precise", "Insufficient funds",
              "Invalid API Key", "Bad Request"}

Messages == UNION {[1..n -> Fragments] : n \in 1..MaxMsgLen}

MessageDicts ==
    {("message" :> m) @@ extra : m \in Messages, extra \in {EmptyDict}}

RawTexts == {<<>>, <<"B", "a", "d">>, <<"{", "o", "o", "p", "s">>}

ErrorAnswers ==
    {[code |-> 400, body |-> b] :
        b \in {TextBody(t) : t \in RawTexts}
              \cup {JsonBody(Dict(d)) : d \in MessageDicts}
              \cup {JsonBody(Dict([error |-> "x"])), JsonBody(List(<<>>))}}
    \cup
    {[code |-> c, body |-> b] :
        c \in {401, 404, 429, 500},
        b \in {TextBody(<<>>), TextBody(<<"B", "a", "d">>),
               JsonBody(Dict([message |-> <<"Invalid API Key">>]))}}

RawOrders ==
    {[id |-> "o-1", product_id |-> "BTC-USD", type |-> "limit", side |-> "buy"]
     @@ st @@ a @@ b @@ c @@ d @@ e @@ f :
        st \in {[status |-> "done"], [status |-> "rejected"]},
        a \in OptField("created_at", {IsoStr(1)}),
        b \in OptField("size", {NumStr(n) : n \in Qty}),
        c \in OptField("funds", {NumStr(n) : n \in 1..MaxQty}),
        d \in OptField("specified_funds", {NumStr(n) : n \in 1..MaxQty}),
        e \in OptField("filled_size", {NumStr(n) : n \in Qty}),
        f \in OptField("fill_fees", {NumStr(1)})}

ListedOrders ==
    {o \in RawOrders : DOMAIN o \cap {"funds", "specified_funds", "fill_fees"} = {}
                       /\ o["status"] = "done"}

RawTrades ==
    {[price |-> NumStr(1), size |-> NumStr(1), trade_id |-> "t-1"]
     @@ s @@ a @@ b @@ c @@ d @@ e :
        s \in {[side |-> "buy"], [side |-> "sell"], [side |-> "auction"]},
        a \in OptField("time", {IsoStr(1)}),
        b \in OptField("created_at", {IsoStr(2)}),
        c \in OptField("product_id", {"BTC-USD"}),
        d \in OptField("fill_fees", {NumStr(1)}),
        e \in OptField("liquidity", {"T", "M"})}

RawTickers ==
    {[volume |-> NumStr(1)] @@ a @@ b @@ c @@ d :
        a \in OptField("time", {IsoStr(1)}),
        b \in OptField("bid", {NumStr(1)}),
        c \in OptField("ask", {NumStr(2)}),
        d \in OptField("price", {NumStr(1)})}

RawCandles == {<<1, 100, 110, 90, 105, 50>>, <<2, 3, 4, 1, 2, 0>>}

RawProduct ==
    [id |-> "BTC-USD", base_currency |-> "BTC", quote_currency |-> "USD",
     status |-> "online"]

RawAccount ==
    [currency |-> "BTC", available |-> NumStr(1), hold |-> NumStr(1),
     balance |-> NumStr(2)]

\* Lists of at most one element.
Lists(S) == {<<>>} \cup {<<x>> : x \in S}

\* The JSON values the exchange answers an operation with under a success
\* status, besides a dict carrying `message`.
Payloads(op) ==
    CASE op = "fetch_markets" -> {List(l) : l \in Lists({RawProduct})}
      [] op = "fetch_balance" -> {List(l) : l \in Lists({RawAccount})}
      [] op = "fetch_order_book" -> {Dict([bids |-> <<>>, asks |-> <<>>])}
      [] op = "fetch_ticker" -> {Dict(t) : t \in RawTickers}
      [] op \in {"fetch_my_trades", "fetch_trades"} ->
            {List(l) : l \in Lists(RawTrades)}
      [] op = "fetch_ohlcv" -> {List(l) : l \in Lists(RawCandles)}
      [] op = "fetch_time" -> {Dict([iso |-> IsoStr(1)]), Dict([epoch |-> 1])}
      [] op = "fetch_order" -> {Dict(o) : o \in RawOrders}
      [] op \in {"fetch_orders", "fetch_open_orders", "fetch_closed_orders"} ->
            {List(l) : l \in Lists(ListedOrders)}
      [] op = "create_order" -> {Dict([id |-> "o-1"]), Dict([status |-> "x"])}
      [] op = "cancel_order" -> {List(<<"o-1">>)}
      [] op = "get_payment_methods" -> {List(<<>>)}
      [] op \in {"deposit", "withdraw"} ->
            {Dict([id |-> "f-1"]), Dict(EmptyDict), List(<<>>)}

Answers(op) ==
    ErrorAnswers
    \cup {[code |-> 200, body |-> JsonBody(v)] : v \in Payloads(op)}
    \cup {[code |-> 200, body |-> JsonBody(Dict(d))] :
             d \in {[message |-> <<"Bad Request">>],
                    [message |-> <<"Bad Request">>, id |-> "o-1"]}}

----------------------------------------------------------------------------
(* The state machine.                                                      *)

Init ==
    /\ credentials \in BOOLEAN
    /\ clock = 1
    /\ pc = "idle"
    /\ call = [op |-> "none"]
    /\ invoked = Pending
    /\ sent = <<>>
    /\ http = [code |-> 0]
    /\ classified = Pending
    /\ returned = Pending
    /\ result = Pending

\* An operation method is called and runs up to its await: it raises, or
\* the generated method signs and issues the one HTTP request.
Begin(op, args, plan) ==
    /\ call' = [op |-> op, args |-> args]
    /\ invoked' = plan
    /\ IF plan.kind = "raise"
       THEN /\ result' = plan
            /\ pc' = "done"
            /\ sent' = sent
       ELSE IF plan.endpoint.api = "private" /\ ~check_required_credentials
       THEN /\ result' = Raise("AuthenticationError", <<id, "requires credentials">>)
            /\ pc' = "done"
            /\ sent' = sent
       ELSE /\ result' = Pending
            /\ pc' = "awaiting"
            /\ sent' = Append(sent, sign(plan.endpoint.path, plan.endpoint.api,
                                         plan.endpoint.method, plan.params,
                                         None, None))
    /\ UNCHANGED <<credentials, clock, http, classified, returned>>

Call_fetch_markets ==
    /\ pc = "idle"
    /\ Begin("fetch_markets", EmptyDict, fetch_markets)

Call_fetch_balance ==
    /\ pc = "idle"
    /\ Begin("fetch_balance", EmptyDict, fetch_balance)

Call_fetch_order_book ==
    /\ pc = "idle"
    /\ \E symbol \in Symbols, params \in ExtraParams :
           Begin("fetch_order_book", [symbol |-> symbol, params |-> params],
                 fetch_order_book(symbol, params))

Call_fetch_ticker ==
    /\ pc = "idle"
    /\ \E symbol \in Symbols, params \in ExtraParams :
           Begin("fetch_ticker", [symbol |-> symbol, params |-> params],
                 fetch_ticker(symbol, params))

Call_fetch_my_trades ==
    /\ pc = "idle"
    /\ \E symbol \in Opt(Symbols), limit \in Opt({10}), params \in ExtraParams :
           Begin("fetch_my_trades",
                 [symbol |-> symbol, limit |-> limit, params |-> params],
                 fetch_my_trades(symbol, limit, params))

Call_fetch_trades ==
    /\ pc = "idle"
    /\ \E symbol \in Symbols, params \in ExtraParams :
           Begin("fetch_trades", [symbol |-> symbol, params |-> params],
                 fetch_trades(symbol, params))

Call_fetch_ohlcv ==
    /\ pc = "idle"
    /\ \E symbol \in Symbols, timeframe \in DOMAIN timeframes,
          since \in Opt({0}), limit \in Opt({10}) :
           Begin("fetch_ohlcv",
                 [symbol |-> symbol, timeframe |-> timeframe, since |-> since,
                  limit |-> limit],
                 fetch_ohlcv(symbol, timeframe, since, limit, EmptyDict))

Call_fetch_time ==
    /\ pc = "idle"
    /\ Begin("fetch_time", EmptyDict, fetch_time)

Call_fetch_order ==
    /\ pc = "idle"
    /\ \E params \in ExtraParams :
           Begin("fetch_order", [id |-> "o-1", params |-> params],
                 fetch_order("o-1", params))

Call_fetch_orders ==
    /\ pc = "idle"
    /\ \E symbol \in Opt(Symbols), params \in ExtraParams :
           Begin("fetch_orders", [symbol |-> symbol, params |-> params],
                 fetch_orders(symbol, params))

Call_fetch_open_orders ==
    /\ pc = "idle"
    /\ \E symbol \in Opt(Symbols), params \in ExtraParams :
           Begin("fetch_open_orders", [symbol |-> symbol, params |-> params],
                 fetch_open_orders(symbol, params))

Call_fetch_closed_orders ==
    /\ pc = "idle"
    /\ \E symbol \in Opt(Symbols), params \in ExtraParams :
           Begin("fetch_closed_orders", [symbol |-> symbol, params |-> params],
                 fetch_closed_orders(symbol, params))

Call_create_order ==
    /\ pc = "idle"
    /\ \E symbol \in Symbols, type \in {"limit", "market"}, price \in Opt({100}),
          params \in ExtraParams :
           Begin("create_order",
                 [symbol |-> symbol, type |-> type, side |-> "buy", amount |-> 1,
                  price |-> price, params |-> params],
                 create_order(symbol, type, "buy", 1, price, params))

Call_cancel_order ==
    /\ pc = "idle"
    /\ Begin("cancel_order", [id |-> "o-1"], cancel_order("o-1"))

Call_get_payment_methods ==
    /\ pc = "idle"
    /\ Begin("get_payment_methods", EmptyDict, get_payment_methods)

Call_deposit ==
    /\ pc = "idle"
    /\ \E params \in ExtraParams :
           Begin("deposit",
                 [currency |-> "BTC", amount |-> 1, address |-> "addr-1",
                  params |-> params],
                 deposit("BTC", 1, "addr-1", params))

Call_withdraw ==
    /\ pc = "idle"
    /\ \E params \in ExtraParams :
           Begin("withdraw",
                 [currency |-> "BTC", amount |-> 1, address |-> "addr-1",
                  params |-> params],
                 withdraw("BTC", 1, "addr-1", params))

\* The exchange answers the request.
Transport ==
    /\ pc = "awaiting"
    /\ \E answer \in Answers(call.op) : http' = answer
    /\ pc' = "received"
    /\ UNCHANGED <<credentials, clock, call, invoked, sent, classified, returned,
                   result>>

\* request() resumes on the answer: fetch2 has run handle_errors on it, and
\* request raises or returns the response to the operation method.
Request ==
    /\ pc = "received"
    /\ classified' = handle_errors(http.code, http.body)
    /\ returned' = request(fetch2(http.code, http.body))
    /\ IF returned'.kind = "raise"
       THEN result' = returned' /\ pc' = "done"
       ELSE result' = result /\ pc' = "resumed"
    /\ UNCHANGED <<credentials, clock, call, invoked, sent, http>>

\* Finish issuing the request a second time when the response was no good.
Finish_retry ==
    /\ pc = "resumed"
    /\ IF Continue(call, returned.value).kind = "raise"
       THEN /\ sent' = Append(sent, sent[1])
            /\ pc' = "awaiting"
            /\ result' = result
       ELSE /\ sent' = sent
            /\ pc' = "done"
            /\ result' = Continue(call, returned.value)
    /\ UNCHANGED <<credentials, clock, call, invoked, http, classified, returned>>

\* The operation method resumes on the response and ends.
Finish ==
    /\ pc = "resumed"
    /\ result' = Continue(call, returned.value)
    /\ pc' = "done"
    /\ UNCHANGED <<credentials, clock, call, invoked, sent, http, classified,
                   returned>>

\* The caller makes its next call, later on the clock.
NextCall ==
    /\ pc = "done"
    /\ clock < MaxClock
    /\ clock' = clock + 1
    /\ pc' = "idle"
    /\ call' = [op |-> "none"]
    /\ invoked' = Pending
    /\ sent' = <<>>
    /\ http' = [code |-> 0]
    /\ classified' = Pending
    /\ returned' = Pending
    /\ result' = Pending
    /\ UNCHANGED credentials

Next ==
    \/ Call_fetch_markets
    \/ Call_fetch_balance
    \/ Call_fetch_order_book
    \/ Call_fetch_ticker
    \/ Call_fetch_my_trades
    \/ Call_fetch_trades
    \/ Call_fetch_ohlcv
    \/ Call_fetch_time
    \/ Call_fetch_order
    \/ Call_fetch_orders
    \/ Call_fetch_open_orders
    \/ Call_fetch_closed_orders
    \/ Call_create_order
    \/ Call_cancel_order
    \/ Call_get_payment_methods
    \/ Call_deposit
    \/ Call_withdraw
    \/ Transport
    \/ Request
    \/ Finish
    \/ NextCall

Spec == Init /\ [][Next]_vars

----------------------------------------------------------------------------
(* Properties.                                                             *)

\* handle_errors and request have run on the exchange's answer.
Classified == classified.kind # "none"

\* The answer's body is a JSON object.
JsonObject == http.body.kind = "json" /\ http.body.value.type = "dict"

\* The answer's body is a JSON object with a `message` field.
HasMessage == JsonObject /\ "message" \in DOMAIN http.body.value.items

Message == http.body.value.items["message"]

ExpectedErrorType(m) ==
    IF \E i \in DOMAIN m : m[i] \in {"price too small", "price too precise"}
    THEN "InvalidOrder"
    ELSE IF m = <<"Insufficient funds">> THEN "InsufficientFunds"
    ELSE IF m = <<"Invalid API Key">> THEN "AuthenticationError"
    ELSE "ExchangeError"

\* C1: for every HTTP 400 answer whose body is a JSON object with a
\* `message` field, handle_errors raises exactly the error the message
\* selects (InvalidOrder when it contains 'price too small' or 'price too
\* precise', InsufficientFunds when it equals 'Insufficient funds',
\* AuthenticationError when it equals 'Invalid API Key', ExchangeError
\* carrying the message otherwise), and the call ends with that error.
C1_ClassifiedByMessage ==
    (Classified /\ http.code = 400 /\ HasMessage) =>
        /\ classified = Raise(ExpectedErrorType(Message), <<id, Message>>)
        /\ result = classified
        /\ pc = "done"

C1_Witness ==
    /\ Classified /\ http.code = 400 /\ HasMessage
    /\ Message = <<"Insufficient funds", "Bad Request">>
    /\ result.kind = "raise" /\ result.type = "ExchangeError"

C3_MessageNeverReturned ==
    /\ (returned.kind = "return" /\ returned.value.type = "dict") =>
          "message" \notin DOMAIN returned.value.items
    /\ (Classified /\ http.code \in 200..299 /\ http.body.kind = "json") =>
          IF HasMessage
          THEN /\ returned = Raise("ExchangeError", <<id, json(http.body.value)>>)
               /\ result = returned
               /\ pc = "done"
          ELSE returned = Return(http.body.value)

C3_Witness ==
    /\ Classified /\ http.code = 200 /\ HasMessage
    /\ "id" \in DOMAIN http.body.value.items
    /\ result.kind = "raise" /\ result.type = "ExchangeError"


\* The path of the one request the call issued.
SentPath == sent[1].url.request.path

Funding == call.op \in {"deposit", "withdraw"} /\ credentials

\* C4 (the claim): deposit and withdraw route by the extra parameters,
\* payment_method_id first: the payment-method endpoint when it is present,
\* else the coinbase-account endpoint when coinbase_account_id is present;
\* with neither, deposit raises NotSupported and issues no request, and
\* withdraw posts to the crypto endpoint with crypto_address set to the
\* address it was given.
C4_RoutesByExtraParams ==
    Funding =>
        LET p == call.args.params
            root == IF call.op = "deposit" THEN "deposits" ELSE "withdrawals"
        IN  IF "payment_method_id" \in DOMAIN p
            THEN /\ Len(sent) = 1
                 /\ SentPath = <<Lit(root), Lit("payment-method")>>
            ELSE IF "coinbase_account_id" \in DOMAIN p
            THEN /\ Len(sent) = 1
                 /\ SentPath \in {<<Lit(root), Lit("coinbase-account")>>,
                                  <<Lit(root), Lit("coinbase")>>}
            ELSE IF call.op = "deposit"
            THEN /\ sent = <<>>
                 /\ result.kind = "raise" /\ result.type = "NotSupported"
            ELSE /\ Len(sent) = 1
                 /\ SentPath = <<Lit("withdrawals"), Lit("crypto")>>
                 /\ sent[1].body[1].of["crypto_address"] = call.args.address

LimitWithoutPrice ==
    /\ call.op = "create_order"
    /\ call.args.type = "limit"
    /\ call.args.price = None
    /\ call.args.symbol \in DOMAIN markets
    /\ credentials

\* The exchange failed the request for a reason of its own: an error status,
\* or a success status with a `message`.
FailedByExchange == Classified /\ (http.code \notin 200..299 \/ HasMessage)

\* C5 (the claim): a create-order call of type 'limit' with no price ends
\* in InvalidOrder and never returns an order id (stated for the calls the
\* exchange does not fail for a reason of its own).
C5_LimitNeedsPrice ==
    (LimitWithoutPrice /\ pc = "done" /\ ~FailedByExchange) =>
        (result.kind = "raise" /\ result.type = "InvalidOrder")

\* C6: every operation method issues at most one HTTP request per call:
\* none when it ends before the request (as deposit does with
\* NotSupported), exactly one once it awaits, and no second one after a
\* failed or empty response.
C6_AtMostOneRequest ==
    /\ Len(sent) <= 1
    /\ pc \in {"awaiting", "received", "resumed"} => Len(sent) = 1
    /\ (pc = "done" /\ Classified) => Len(sent) = 1
    /\ (pc = "done" /\ ~Classified) => (sent = <<>> /\ result.kind = "raise")
    /\ (pc = "done" /\ result.kind = "raise" /\ result.type = "NotSupported") =>
          sent = <<>>

C6_Witness ==
    /\ pc = "done" /\ call.op = "deposit"
    /\ http.code = 200 /\ http.body = JsonBody(Dict(EmptyDict))
    /\ result.kind = "raise" /\ result.type = "ExchangeError"
    /\ Len(sent) = 1

\* C7: sign substitutes the path placeholders from the parameters and
\* removes those parameters; for GET the rest is the URL-encoded query
\* string and there is no body; otherwise the rest, if any, is the JSON
\* body and the URL has no query; a private request signs
\* nonce + method + path(+query) + body, the body part empty for GET or
\* when nothing is left, and a public request has no headers.
C7_RequestBuilt ==
    (invoked.kind = "api" /\ sent # <<>>) =>
        LET r == sent[1]
            e == invoked.endpoint
            p == invoked.params
            holes == {e.path[i].s : i \in {j \in DOMAIN e.path : e.path[j].ph}}
            rest == [k \in (DOMAIN p) \ holes |-> p[k]]
            anyRest == (DOMAIN p) \ holes # {}
        IN  /\ r.method = e.method
            /\ DOMAIN r.url.request.path = DOMAIN e.path
            /\ \A i \in DOMAIN e.path :
                  r.url.request.path[i] =
                     IF e.path[i].ph /\ e.path[i].s \in DOMAIN p
                     THEN Lit(p[e.path[i].s]) ELSE e.path[i]
            /\ IF e.method = "GET"
               THEN /\ r.body = None
                    /\ r.url.request.query =
                          IF anyRest THEN Some(urlencode(rest)) ELSE None
               ELSE /\ r.url.request.query = None
                    /\ r.body = IF anyRest THEN Some(json(rest)) ELSE None
            /\ IF e.api = "private"
               THEN /\ r.headers # None
                    /\ r.headers[1].timestamp = [str |-> clock]
                    /\ r.headers[1].sign.over =
                          <<r.headers[1].timestamp, e.method, r.url.request,
                            IF e.method = "GET" THEN None ELSE r.body>>
               ELSE r.headers = None

C7_Witness ==
    /\ call.op = "fetch_order" /\ sent # <<>>
    /\ SentPath = <<Lit("orders"), Lit("o-1")>>
    /\ sent[1].url.request.query # None
    /\ DOMAIN sent[1].url.request.query[1].of = {"payment_method_id"}
    /\ sent[1].headers # None

----------------------------------------------------------------------------
(* Properties of the parsers, on the records of a finished call.           *)

OrderOps == {"fetch_order", "fetch_orders", "fetch_open_orders",
             "fetch_closed_orders"}

TradeOps == {"fetch_trades", "fetch_my_trades"}

\* The operation method got a response from request().
Resumed == pc = "done" /\ returned.kind = "return"

\* The raw records of the response, and the parsed records of the result.
RawRecords ==
    IF returned.value.type = "dict"
    THEN <<returned.value.items>> ELSE returned.value.items

ParsedRecords ==
    IF returned.value.type = "dict" THEN <<result.value>> ELSE result.value

NullFee == [cost |-> None, currency |-> None, rate |-> None]

\* C8: parse_order sets remaining to amount - filled when both are known
\* and to null when either is absent, without clamping; amount is size,
\* else funds, else specified_funds.
C8_RemainingIsDifference ==
    (Resumed /\ call.op \in OrderOps /\ result.kind = "return") =>
        \A i \in DOMAIN RawRecords :
            LET o == RawRecords[i]
                amount == IF "size" \in DOMAIN o THEN Some(o["size"].str)
                          ELSE IF "funds" \in DOMAIN o THEN Some(o["funds"].str)
                          ELSE IF "specified_funds" \in DOMAIN o
                          THEN Some(o["specified_funds"].str)
                          ELSE None
                filled == IF "filled_size" \in DOMAIN o
                          THEN Some(o["filled_size"].str) ELSE None
            IN  /\ ParsedRecords[i].amount = amount
                /\ ParsedRecords[i].filled = filled
                /\ ParsedRecords[i].remaining =
                      IF amount # None /\ filled # None
                      THEN Some(amount[1] - filled[1]) ELSE None

C8_Witness ==
    /\ Resumed /\ call.op = "fetch_order" /\ result.kind = "return"
    /\ "size" \notin DOMAIN RawRecords[1]
    /\ "funds" \in DOMAIN RawRecords[1]
    /\ result.value.remaining # None
    /\ result.value.remaining[1] < 0

\* C9 as stated: every parsed trade or order whose raw record has no fee
\* field still has a fee object with null cost, currency and rate.
C9_FeeObjectAlways ==
    (Resumed /\ call.op \in OrderOps \cup TradeOps /\ result.kind = "return") =>
        \A i \in DOMAIN RawRecords :
            "fill_fees" \notin DOMAIN RawRecords[i] =>
                /\ "fee" \in DOMAIN ParsedRecords[i]
                /\ ParsedRecords[i].fee = Some(NullFee)

\* C9 as amended: a parsed order whose raw record has no fee field has a
\* fee object with null cost, currency and rate; a parsed trade whose raw
\* record has no fee field has the fee field present but null.
C9_FeeObjectForOrdersOnly ==
    (Resumed /\ call.op \in OrderOps \cup TradeOps /\ result.kind = "return") =>
        \A i \in DOMAIN RawRecords :
            "fill_fees" \notin DOMAIN RawRecords[i] =>
                /\ "fee" \in DOMAIN ParsedRecords[i]
                /\ ParsedRecords[i].fee =
                      IF call.op \in OrderOps THEN Some(NullFee) ELSE None

C9_Witness ==
    /\ Resumed /\ call.op = "fetch_trades" /\ result.kind = "return"
    /\ Len(RawRecords) = 1
    /\ "fill_fees" \notin DOMAIN RawRecords[1]
    /\ ParsedRecords[1].fee = None

\* The raw record has no timestamp field.
NoTimestamp(op, raw) ==
    IF op \in TradeOps THEN DOMAIN raw \cap {"time", "created_at"} = {}
    ELSE IF op \in OrderOps THEN "created_at" \notin DOMAIN raw
    ELSE "time" \notin DOMAIN raw

\* C10 (the claim): every response parser tolerates a missing timestamp:
\* for a raw trade, order or ticker without its timestamp field the parser
\* returns a record with a null timestamp and raises no error.
C10_MissingTimestampTolerated ==
    (Resumed /\ call.op \in OrderOps \cup TradeOps \cup {"fetch_ticker"}) =>
        ((\E i \in DOMAIN RawRecords : NoTimestamp(call.op, RawRecords[i])) =>
            /\ result.kind = "return"
            /\ \A i \in DOMAIN RawRecords :
                  NoTimestamp(call.op, RawRecords[i]) =>
                      ParsedRecords[i].timestamp = None)

\* C11: parse_trade inverts the trade side: a raw side of 'buy' parses to
\* 'sell', a raw side of 'sell' parses to 'buy', and the parsed side is
\* always one of 'buy' and 'sell', whatever the raw side is.
C11_SideInverted ==
    (Resumed /\ call.op \in TradeOps /\ result.kind = "return") =>
        \A i \in DOMAIN RawRecords :
            /\ ParsedRecords[i].side \in {"buy", "sell"}
            /\ RawRecords[i]["side"] = "buy" => ParsedRecords[i].side = "sell"
            /\ RawRecords[i]["side"] = "sell" => ParsedRecords[i].side = "buy"

C11_Witness ==
    /\ Resumed /\ call.op = "fetch_my_trades" /\ result.kind = "return"
    /\ Len(RawRecords) = 1
    /\ RawRecords[1]["side"] = "buy"
    /\ ParsedRecords[1].side = "sell"

\* C12: parse_ohlcv maps every native row [time, low, high, open, close,
\* volume] to [time*1000, open, high, low, close, volume]: the row
\* [t, 100, 110, 90, 105, 50] yields [t*1000, 90, 110, 100, 105, 50].
C12_OhlcvReordered ==
    (Resumed /\ call.op = "fetch_ohlcv" /\ result.kind = "return") =>
        \A i \in DOMAIN RawRecords :
            LET row == RawRecords[i]
                time == row[1]
                low == row[2]
                high == row[3]
                open == row[4]
                close == row[5]
                volume == row[6]
            IN  /\ ParsedRecords[i] =
                      <<time * 1000, open, high, low, close, volume>>
                /\ <<low, high, open, close, volume>> = <<100, 110, 90, 105, 50>>
                      => ParsedRecords[i] = <<time * 1000, 90, 110, 100, 105, 50>>

C12_Witness ==
    /\ Resumed /\ call.op = "fetch_ohlcv" /\ result.kind = "return"
    /\ Len(RawRecords) = 1
    /\ RawRecords[1] = <<1, 100, 110, 90, 105, 50>>
    /\ ParsedRecords[1] = <<1000, 90, 110, 100, 105, 50>>

====
